---- MODULE Spec2Model ----
(***************************************************************************)
(* Cache-aside layer of xyler0/redis-caching: RedisService (resilient      *)
(* backend client), CacheInterceptor (lookup / hit / miss / populate),     *)
(* CacheKeyBuilder and CacheTTL, wrapped around the UsersController        *)
(* handlers.  The Redis server, its single connection (a FIFO of commands  *)
(* in flight) and the backing store read by the handlers are part of the   *)
(* state.                                                                  *)
(***************************************************************************)
EXTENDS Integers, Sequences, FiniteSets, TLC

(* ------------------------------ bounds --------------------------------- *)
\* commands that can be in flight on the connection
MaxQueue == 2
\* seconds that pass in one Tick
TickStep == 200
\* lookups followed between two resets of the counters
MaxTraffic == 3
\* calls of recordHit, and of recordMiss, between two resets
MaxRecord == 1

(* ------------------------- strings as characters ----------------------- *)
COLON == <<":">>
NAMESPACE == <<"a", "p", "p">>
VERSION == <<"v", "1">>

\* CacheTTL table
USER == 300
USER_LIST == 60

\* decimal digits
DigitSeq == <<"0", "1", "2", "3", "4", "5", "6", "7", "8", "9">>
DigitChars == {DigitSeq[i] : i \in 1..10}
DigitVal(ch) == (CHOOSE i \in 1..10 : DigitSeq[i] = ch) - 1

\* the number NaN; the numbers of the model are naturals otherwise
NaN == -1

\* String(n), as in `${n}`
RECURSIVE NumStr(_)
NumStr(n) ==
  IF n = NaN THEN <<"N", "a", "N">>
  ELSE IF n < 10 THEN <<DigitSeq[n + 1]>>
  ELSE NumStr(n \div 10) \o <<DigitSeq[(n % 10) + 1]>>

\* the longest run of digits of text from position i on
RECURSIVE DigitRun(_, _)
DigitRun(text, i) ==
  IF i <= Len(text) /\ text[i] \in DigitChars
    THEN <<text[i]>> \o DigitRun(text, i + 1)
    ELSE <<>>

RECURSIVE DigitsValue(_, _)
DigitsValue(ds, acc) ==
  IF ds = <<>> THEN acc
  ELSE DigitsValue(Tail(ds), 10 * acc + DigitVal(Head(ds)))

\* parseInt(text) for text without sign or leading blanks
ParseInt(text) ==
  LET ds == DigitRun(text, 1) IN
    IF ds = <<>> THEN NaN ELSE DigitsValue(ds, 0)

\* CacheKeyBuilder.build
Build(resource, identifier) ==
  NAMESPACE \o COLON \o VERSION \o COLON \o resource \o COLON \o identifier

\* CacheKeyBuilder.buildList, page and limit already defaulted
BuildList(resource, page, limit) ==
  NAMESPACE \o COLON \o VERSION \o COLON \o resource \o COLON
    \o <<"l", "i", "s", "t">> \o COLON
    \o <<"p", "a", "g", "e", "-">> \o NumStr(page) \o COLON
    \o <<"l", "i", "m", "i", "t", "-">> \o NumStr(limit)

(* ------------------------------ requests ------------------------------- *)
\* the inbound requests of the model: GET /users/1, GET /users?page=1&limit=10,
\* GET /users?page=2&limit=10 and a handler behind the interceptor that has no
\* @Cached metadata
ReqUser == [route |-> "findOne", arg |-> 1]
ReqList == [route |-> "findAll", arg |-> 1]
ReqList2 == [route |-> "findAll", arg |-> 2]
ReqOther == [route |-> "other", arg |-> 0]
Inputs == {ReqUser, ReqList, ReqList2, ReqOther}
BoundInputs == {ReqUser, ReqList, ReqList2}

\* mutant: intercept without the `if (!cacheConfig) return next.handle()`
HasPolicy_always(in) == TRUE

\* reflector.get(CACHE_KEY, handler): the ttl of the bound policy, 0 if none
HasPolicy(in) == in.route \in {"findOne", "findAll"}

\* mutant: findAll is bound with ttl: 0
PolicyTtl_unset(in) == IF in.route = "findOne" THEN USER ELSE 0

PolicyTtl(in) == IF in.route = "findOne" THEN USER ELSE USER_LIST

\* mutant: the keyBuilder of findAll leaves the page out
KeyOf_nopage(in) ==
  IF in.route = "findOne"
    THEN Build(<<"u", "s", "e", "r">>, NumStr(in.arg))
    ELSE BuildList(<<"u", "s", "e", "r", "s">>, 1, 10)

\* cacheConfig.keyBuilder(request.params, request.query)
KeyOf(in) ==
  IF in.route = "findOne"
    THEN Build(<<"u", "s", "e", "r">>, NumStr(in.arg))
    ELSE BuildList(<<"u", "s", "e", "r", "s">>, in.arg, 10)

Keys == {KeyOf(in) : in \in BoundInputs}
NoKey == <<>>

(* --------------------------- key derivations --------------------------- *)
\* an optional value: <<>> when undefined, <<v>> otherwise
\* `const { page = 1 } = params`: the default stands in for undefined only
OrDefault(opt, d) == IF opt = <<>> THEN d ELSE opt[1]

\* `query.page || '1'`: the default stands in for undefined and for ''
OrText(opt, d) == IF opt = <<>> \/ opt[1] = <<>> THEN d ELSE opt[1]

\* mutant: buildList without the destructuring defaults
BuildListParams_nodefaults(resource, params) ==
  LET str(opt) == IF opt = <<>>
                    THEN <<"u", "n", "d", "e", "f", "i", "n", "e", "d">>
                    ELSE NumStr(opt[1])
  IN NAMESPACE \o COLON \o VERSION \o COLON \o resource \o COLON
       \o <<"l", "i", "s", "t">> \o COLON
       \o <<"p", "a", "g", "e", "-">> \o str(params.page) \o COLON
       \o <<"l", "i", "m", "i", "t", "-">> \o str(params.limit)

\* CacheKeyBuilder.buildList(resource, params), page and limit optional
BuildListParams(resource, params) ==
  BuildList(resource, OrDefault(params.page, 1), OrDefault(params.limit, 10))

\* the keyBuilder of findAll: page and limit of the query string, if any
ListKeyBuilder(query) ==
  BuildListParams(<<"u", "s", "e", "r", "s">>,
                  [page |-> <<ParseInt(OrText(query.page, <<"1">>))>>,
                   limit |-> <<ParseInt(OrText(query.limit, <<"1", "0">>))>>])

\* one derivation: a call of build, a call of buildList, or the keyBuilder
\* of findAll on a query string
NoInput ==
  [fn |-> "none", resource |-> <<>>, id |-> <<>>, page |-> <<>>, limit |-> <<>>,
   qpage |-> <<>>, qlimit |-> <<>>]
BuildIn(resource, id) ==
  [NoInput EXCEPT !.fn = "build", !.resource = resource, !.id = id]
ListIn(resource, page, limit) ==
  [NoInput EXCEPT !.fn = "buildList", !.resource = resource, !.page = page,
                  !.limit = limit]
RouteIn(qpage, qlimit) ==
  [NoInput EXCEPT !.fn = "findAll", !.qpage = qpage, !.qlimit = qlimit]
\* GET /users/:id with the route parameter id
OneIn(id) == [NoInput EXCEPT !.fn = "findOne", !.id = id]

KeyFor(x) ==
  CASE x.fn = "build" -> Build(x.resource, x.id)
    [] x.fn = "findOne" -> Build(<<"u", "s", "e", "r">>, x.id)
    [] x.fn = "buildList" ->
         BuildListParams(x.resource, [page |-> x.page, limit |-> x.limit])
    [] OTHER -> ListKeyBuilder([page |-> x.qpage, limit |-> x.qlimit])

\* resources and identifiers, some with the separator in them
KeyStrings ==
  {<<"a">>, <<"a", ":", "b">>, <<"b", ":", "c">>, <<"c">>,
   <<"u", "s", "e", "r", "s">>,
   <<"l", "i", "s", "t", ":", "p", "a", "g", "e", "-", "1", ":",
     "l", "i", "m", "i", "t", "-", "1", "0">>}
KeyNumbers == {<<>>, <<1>>, <<2>>, <<10>>}
QueryTexts == {<<>>, << <<"1">> >>, << <<"2">> >>, << <<"1", "0">> >>}

\* mutant: the handler of findAll defaults with ?? instead of ||
FindAllArgs_nullish(query) ==
  <<ParseInt(OrDefault(query.page, <<"1">>)),
    ParseInt(OrDefault(query.limit, <<"1", "0">>))>>

\* the arguments findAll passes to usersService.findAll
FindAllArgs(query) ==
  <<ParseInt(OrText(query.page, <<"1">>)),
    ParseInt(OrText(query.limit, <<"1", "0">>))>>

\* the arguments the handler of the route calls the service with
HandlerArgs(x) ==
  CASE x.fn = "findOne" -> <<x.id>>
    [] x.fn = "findAll" -> FindAllArgs([page |-> x.qpage, limit |-> x.qlimit])
    [] OTHER -> <<>>

\* query values: missing, empty, zero, numeric, non-numeric, digits first
RouteTexts ==
  QueryTexts \cup {<< <<>> >>, << <<"0">> >>, << <<"a">> >>, << <<"b">> >>,
                   << <<"1", "a">> >>}

\* route parameters, some with the separator in them
RouteIds ==
  {<<"1">>, <<"2">>, <<"1", ":", "2">>,
   <<"s", ":", "l", "i", "s", "t", ":", "p", "a", "g", "e", "-", "1", ":",
     "l", "i", "m", "i", "t", "-", "1", "0">>}

\* requests on the two cached routes
RouteInputs ==
  {RouteIn(p, l) : p \in RouteTexts, l \in RouteTexts}
    \cup {OneIn(id) : id \in RouteIds}

KeyInputs ==
  {BuildIn(r, i) : r \in KeyStrings, i \in KeyStrings}
    \cup {ListIn(r, p, l) : r \in {<<"a">>, <<"u", "s", "e", "r", "s">>},
                           p \in KeyNumbers, l \in KeyNumbers}
    \cup {RouteIn(p, l) : p \in QueryTexts, l \in QueryTexts}

(* ------------------------- values and JSON text ------------------------ *)
\* JavaScript values a handler can emit
Null == [kind |-> "null", val |-> 0]
Num(n) == [kind |-> "number", val |-> n]
User(n) == [kind |-> "user", val |-> n]
Page(n) == [kind |-> "page", val |-> n]
Circular == [kind |-> "circular", val |-> 0]
NoData == [kind |-> "none", val |-> 0]

UserValues == {Null, User(1), User(2), Circular}
EmptyList == [kind |-> "list", val |-> 0]
PageValues == {Page(0), Page(1), EmptyList}
Serializable ==
  {Null, Num(0), Num(1), User(1), User(2), Page(0), Page(1), Page(2), EmptyList}

\* errors a request can end with
NotFound == [kind |-> "HttpException", val |-> 404]
DbError == [kind |-> "Error", val |-> 500]
HandlerErrors == {NotFound, DbError}
SyntaxError == [kind |-> "SyntaxError", val |-> 0]
TypeError == [kind |-> "TypeError", val |-> 0]

\* mutant: `if (data !== undefined)`, null passes
Truthy_defined(d) == TRUE

\* mutant: `if (data && data.length)`-style test, empty collections fail
Truthy_nonempty(d) ==
  CASE d.kind = "null" -> FALSE
    [] d.kind = "number" -> d.val /= 0
    [] d.kind \in {"list", "page"} -> d.val /= 0
    [] OTHER -> TRUE

\* JavaScript truthiness of a handler result: `if (data)`
Truthy(d) ==
  CASE d.kind = "null" -> FALSE
    [] d.kind = "number" -> d.val /= 0
    [] OTHER -> TRUE

\* JavaScript truthiness of a string: `if (cachedData)`
TruthyStr(reply) == ~reply.nil /\ reply.val /= <<>>

\* JSON.stringify; ok = FALSE when it throws (circular structure)
Stringify(d) ==
  CASE d.kind = "null" -> [ok |-> TRUE, text |-> <<"n", "u", "l", "l">>]
    [] d.kind = "number" -> [ok |-> TRUE, text |-> NumStr(d.val)]
    [] d.kind = "user" ->
         [ok |-> TRUE, text |-> <<"{", "n", ":">> \o NumStr(d.val) \o <<"}">>]
    [] d.kind = "page" ->
         [ok |-> TRUE,
          text |-> <<"{", "d", ":", "[">>
                     \o (IF d.val = 0 THEN <<>> ELSE NumStr(d.val))
                     \o <<"]", "}">>]
    [] d.kind = "list" -> [ok |-> TRUE, text |-> <<"[", "]">>]
    [] OTHER -> [ok |-> FALSE, text |-> <<>>]

\* JSON.parse; ok = FALSE when it throws SyntaxError
Parse(text) ==
  IF \E d \in Serializable : Stringify(d).text = text
    THEN [ok |-> TRUE,
          data |-> CHOOSE d \in Serializable : Stringify(d).text = text]
    ELSE [ok |-> FALSE, data |-> NoData]

\* payloads another client of the shared backend can leave under a key
ForeignPayloads == {<<"{", "n">>}

(* ------------------------------- state --------------------------------- *)
VARIABLES
  link,         \* the ioredis client's socket: none, connecting, up, broken, closed
  isConnected,  \* RedisService.isConnected
  queue,        \* commands sent on the connection and not yet answered
  cache,        \* the Redis keyspace: key -> entry
  age,          \* per key: seconds since the last set sent by RedisService was applied, -1 if none
  db,           \* the backing store: what loadOne / loadPage return now
  req,          \* the requests, one per slot, with what was observed of each
  api,          \* a direct call of RedisService.get / set / del / keys
  local,        \* CacheMetricsService.hits / misses
  stats,        \* the server's keyspace_hits / keyspace_misses
  tally,        \* what an observer has counted of the lookups since the last reset
  mcall,        \* a call of CacheMetricsService.getMetrics / resetMetrics
  kb,           \* a pair of key derivations
  former,       \* the socket of the client a second onModuleInit has replaced
  lastEvent,    \* the lifecycle event delivered last: none, connect, error, close
  made          \* per key, the results the handler has returned for it so far

vars == <<link, isConnected, queue, cache, age, db, req, api, local, stats,
          tally, mcall, kb, former, lastEvent, made>>

\* two request slots: at most two requests are in flight together
Reqs == {1, 2}

NoEntry == [present |-> FALSE, val |-> <<>>, ttl |-> 0]
\* ttl = -1: an entry without expiry (plain SET)
Entry(v, t) == [present |-> TRUE, val |-> v, ttl |-> t]

Nil == [nil |-> TRUE, val |-> <<>>]
Bulk(v) == [nil |-> FALSE, val |-> v]

\* pc: idle, wait_get, handling, returning, done
\* look: how the lookup ended: none, skip (flag false), fail (call rejected),
\*       nil (absent or falsy), hit
\* calm: the backend has been healthy and undisturbed since the request began
\* prev: the response of the request that preceded this one in the slot, kept
\*       when that one derived the same key, missed on a healthy lookup and
\*       nothing disturbed the backend since
IdleReq ==
  [pc |-> "idle", in |-> ReqOther, look |-> "none", data |-> NoData,
   calls |-> 0, sets |-> 0, resp |-> NoData, calm |-> FALSE, prev |-> NoData]

\* a direct call: op is get, set, del or keys; how is skip (flag false),
\* fail (rejected, connection down), err (error reply) or ok
IdleApi ==
  [pc |-> "idle", op |-> "none", key |-> NoKey, how |-> "none",
   threw |-> FALSE, nil |-> FALSE, val |-> <<>>, list |-> {}]

\* the two counters of the metrics service, and of the server
NoCounts == [hits |-> 0, misses |-> 0]

\* the observer's count: lookups that ended in a hit, lookups after which the
\* handler ran, and those of the latter that never got the server's answer;
\* on: the counters are followed (they are in the specification that reads
\* them, and stand still elsewhere)
NoTally == [on |-> FALSE, hits |-> 0, misses |-> 0, bypass |-> 0]

\* a call of the metrics service: op is getMetrics or resetMetrics;
\* pc: idle, wait_all (Promise.all pending), wait_size (INFO answered),
\*     wait_mem (getMemoryUsage pending), wait_reset, done
\* info, size: the settled values of Promise.all; hits .. mem: the object returned
\* (rate in hundredths); seen: the server's counters and the observer's count
\* when INFO stats was answered
IdleM ==
  [pc |-> "idle", op |-> "none", threw |-> FALSE, info |-> <<>>, size |-> 0,
   hits |-> 0, misses |-> 0, rate |-> 0, keys |-> 0, mem |-> <<>>,
   seen |-> [stats |-> NoCounts, tally |-> NoTally]]

\* a pair of key derivations: x, y the inputs, kx, ky the keys
\* ax, ay the arguments the handler of the route passes on
IdleKb ==
  [pc |-> "idle", x |-> NoInput, y |-> NoInput, kx |-> <<>>, ky |-> <<>>,
   ax |-> <<>>, ay |-> <<>>]

\* the state after construction, before onModuleInit
InitState ==
  /\ link = "none"
  /\ isConnected = FALSE
  /\ queue = <<>>
  /\ cache = [k \in Keys |-> NoEntry]
  /\ age = [k \in Keys |-> -1]
  /\ db = [in \in BoundInputs |-> IF in = ReqUser THEN User(1) ELSE Page(in.arg)]
  /\ req = [r \in Reqs |-> IdleReq]
  /\ api = IdleApi
  /\ local = NoCounts
  /\ stats = NoCounts
  /\ mcall = IdleM
  /\ former = "none"
  /\ lastEvent = "none"

\* the handler results are followed only in the specification that reads
\* them (on), and stand still elsewhere
NoneMade == [on |-> FALSE, by |-> [k \in Keys |-> {}]]

Init ==
  /\ InitState
  /\ tally = NoTally
  /\ kb = IdleKb
  /\ made = NoneMade

\* the handler results are followed from the start
InitMade ==
  /\ InitState
  /\ tally = NoTally
  /\ kb = IdleKb
  /\ made = [NoneMade EXCEPT !.on = TRUE]

\* the counters are followed from the start
InitMetrics ==
  /\ InitState
  /\ tally = [NoTally EXCEPT !.on = TRUE]
  /\ kb = IdleKb
  /\ made = NoneMade

\* the key builder on its own: two inputs, not yet derived
InitKeys ==
  /\ InitState
  /\ tally = NoTally
  /\ kb \in {[IdleKb EXCEPT !.x = x, !.y = y] : x \in KeyInputs, y \in KeyInputs}
  /\ made = NoneMade

\* two requests on the cached routes, keys not yet derived
InitArgs ==
  /\ InitState
  /\ tally = NoTally
  /\ kb \in {[IdleKb EXCEPT !.x = x, !.y = y] : x \in RouteInputs, y \in RouteInputs}
  /\ made = NoneMade

\* the two keys are derived
BuildKeys ==
  /\ kb.pc = "idle"
  /\ kb' = [kb EXCEPT !.pc = "built", !.kx = KeyFor(kb.x), !.ky = KeyFor(kb.y),
                      !.ax = HandlerArgs(kb.x), !.ay = HandlerArgs(kb.y)]
  /\ UNCHANGED <<link, isConnected, queue, cache, age, db, req, api, local, stats, tally, mcall, former, lastEvent, made>>

\* a disturbance of the backend ends the calm of every request
Disturbed(f) == [r \in Reqs |-> [f[r] EXCEPT !.calm = FALSE]]

(* --------------------------- RedisService ------------------------------ *)
RedisError == [kind |-> "RedisError", val |-> 0]

\* commands on the connection; req = 0: no request waits for the answer;
\* api: the answer goes to the direct call
Cmd(o, k) ==
  [op |-> o, key |-> k, keys |-> {}, val |-> <<>>, ttl |-> 0, req |-> 0,
   api |-> FALSE, tries |-> 0]
GetCmd(r, k) == [Cmd("GET", k) EXCEPT !.req = r]
SetexCmd(k, v, t) == [Cmd("SETEX", k) EXCEPT !.val = v, !.ttl = t]
SetCmd(k, v) == [Cmd("SET", k) EXCEPT !.val = v]
DelCmd(ks) == [Cmd("DEL", NoKey) EXCEPT !.keys = ks]
KeysCmd(pat) == Cmd("KEYS", pat)

\* RedisService.isHealthy
isHealthy == isConnected

\* mutant: no try/catch around client.get
RedisGet_rethrow(res) ==
  IF res.err
    THEN [threw |-> TRUE, value |-> Nil]
    ELSE [threw |-> FALSE, value |-> res.reply]

\* RedisService.get once client.get has settled: res.err = the call rejected
RedisGet(res) ==
  IF res.err
    THEN [threw |-> FALSE, value |-> Nil]
    ELSE [threw |-> FALSE, value |-> res.reply]

\* RedisService.get when the flag is false: no command is issued
RedisGetSkipped == [threw |-> FALSE, value |-> Nil]

\* mutant: the health check of set is inverted
RedisSet_inverted(k, v, t) ==
  IF isHealthy
    THEN <<>>
    ELSE IF t /= 0 THEN <<SetexCmd(k, v, t)>> ELSE <<SetCmd(k, v)>>

\* mutant: set drops the expiry and always sends a plain SET
RedisSet_noexpiry(k, v, t) ==
  IF ~isHealthy THEN <<>> ELSE <<SetCmd(k, v)>>

\* RedisService.set(key, value, ttlSeconds): the commands it sends
RedisSet(k, v, t) ==
  IF ~isHealthy
    THEN <<>>
    ELSE IF t /= 0 THEN <<SetexCmd(k, v, t)>> ELSE <<SetCmd(k, v)>>

\* RedisService.get / del / keys: the commands they send
RedisGetCmds(k) == IF ~isHealthy THEN <<>> ELSE <<Cmd("GET", k)>>
RedisDelCmds(ks) == IF ~isHealthy THEN <<>> ELSE <<DelCmd(ks)>>

\* mutant: keys without the isHealthy check
RedisKeysCmds_unchecked(pat) == <<KeysCmd(pat)>>

RedisKeysCmds(pat) == IF ~isHealthy THEN <<>> ELSE <<KeysCmd(pat)>>

\* RedisService.set once client.setex / client.set has settled
RedisSetSettled(res) == [threw |-> FALSE]

\* mutant: del without try/catch
RedisDelSettled_rethrow(res) == [threw |-> res.err]

\* RedisService.del once client.del has settled
RedisDelSettled(res) == [threw |-> FALSE]

\* RedisService.keys once client.keys has settled
RedisKeys(res) ==
  IF res.err
    THEN [threw |-> FALSE, list |-> {}]
    ELSE [threw |-> FALSE, list |-> res.list]

\* RedisService.keys when the flag is false
RedisKeysSkipped == [threw |-> FALSE, list |-> {}]

\* CacheKeyBuilder.pattern(resource), wildcard '*'
Pattern(resource) ==
  NAMESPACE \o COLON \o VERSION \o COLON \o resource \o COLON \o <<"*">>

(* -------------------------- CacheInterceptor --------------------------- *)
\* mutant: the cached value is ignored and the handler runs on every lookup
AfterLookup_refetch(rq, got, how) ==
  IF got.threw
    THEN [rq EXCEPT !.pc = "done", !.look = how, !.resp = RedisError]
    ELSE [rq EXCEPT !.pc = "handling",
                    !.look = IF TruthyStr(got.value) THEN "hit" ELSE how]

\* intercept, from the settled `await this.redis.get(cacheKey)` on;
\* how = skip, fail or nil: the way the lookup went when it yields no hit
AfterLookup(rq, got, how) ==
  IF got.threw
    THEN [rq EXCEPT !.pc = "done", !.look = how, !.resp = RedisError]
    ELSE IF TruthyStr(got.value)
      THEN LET p == Parse(got.value.val) IN
             IF p.ok
               THEN [rq EXCEPT !.pc = "done", !.look = "hit", !.resp = p.data]
               ELSE [rq EXCEPT !.pc = "done", !.look = "hit", !.resp = SyntaxError]
      ELSE [rq EXCEPT !.pc = "handling", !.look = how]

\* mutant: the populate stores every list result under the key of page 1
TapCommands_firstpage(rq, d) ==
  IF Truthy(d)
    THEN LET s == Stringify(d) IN
           IF s.ok
             THEN RedisSet(IF rq.in = ReqList2 THEN KeyOf(ReqList) ELSE KeyOf(rq.in),
                           s.text, PolicyTtl(rq.in))
             ELSE <<>>
    ELSE <<>>

\* the tap callback: the commands the populate sends for handler result d
TapCommands(rq, d) ==
  IF Truthy(d)
    THEN LET s == Stringify(d) IN
           IF s.ok THEN RedisSet(KeyOf(rq.in), s.text, PolicyTtl(rq.in)) ELSE <<>>
    ELSE <<>>

\* mutant: the populate runs synchronously in the pipe, so a throwing
\* JSON.stringify becomes the error of the request
TapEmits_sync(rq, d) ==
  IF Truthy(d) /\ ~Stringify(d).ok THEN TypeError ELSE d

\* what leaves pipe(tap(async ...)) when the handler emits d: the callback's
\* promise is not awaited, so neither its result nor its rejection is seen
TapEmits(rq, d) == d

\* what the request remembers of the one before it in the slot
PrevOf(old, in) ==
  IF old.pc = "done" /\ old.in = in /\ old.look = "nil" /\ old.calm
    THEN old.resp
    ELSE NoData

\* the lookup of a request ends in the step from o to n
LookupEnds(o, n) ==
  \/ o.pc = "wait_get" /\ n.pc /= "wait_get"
  \/ o.pc \in {"idle", "done"} /\ n.pc = "handling" /\ HasPolicy(n.in)

\* the observer's count after the step from old to new
Observe(old, new) ==
  LET E == {r \in Reqs : LookupEnds(old[r], new[r])}
      H == {r \in E : new[r].look = "hit"}
      B == {r \in E : new[r].look \in {"skip", "fail"}}
  IN IF tally.on
       THEN [tally EXCEPT !.hits = @ + Cardinality(H),
                          !.misses = @ + Cardinality(E \ H),
                          !.bypass = @ + Cardinality(B)]
       ELSE tally

\* lookups followed since the last reset, those under way included
Traffic == tally.hits + tally.misses
             + Cardinality({r \in Reqs : req[r].pc = "wait_get"})

\* a request arrives: resolve the policy, derive the key, start the lookup
Begin(r, in) ==
  /\ link /= "none"
  /\ req[r].pc \in {"idle", "done"}
  /\ r = 2 => req[1].pc \notin {"idle", "done"}
  /\ (tally.on /\ HasPolicy(in)) => Traffic < MaxTraffic
  /\ LET rq == [IdleReq EXCEPT !.in = in,
                               !.calm = isConnected /\ link = "up",
                               !.prev = PrevOf(req[r], in)] IN
       IF ~HasPolicy(in)
         THEN /\ req' = [req EXCEPT ![r] = [rq EXCEPT !.pc = "handling"]]
              /\ UNCHANGED queue
         ELSE IF ~isHealthy
                THEN /\ req' = [req EXCEPT ![r] =
                                  AfterLookup(rq, RedisGetSkipped, "skip")]
                     /\ UNCHANGED queue
                ELSE /\ Len(queue) < MaxQueue
                     /\ queue' = Append(queue, GetCmd(r, KeyOf(in)))
                     /\ req' = [req EXCEPT ![r] = [rq EXCEPT !.pc = "wait_get"]]
  /\ tally' = Observe(req, req')
  /\ UNCHANGED <<link, isConnected, cache, age, db, api, local, stats, mcall, kb, former, lastEvent, made>>

\* next.handle(): the handler reads the backing store
HandlerResult(in) == IF HasPolicy(in) THEN db[in] ELSE User(1)

\* the handler runs: it loads from the store (out = Loaded) or throws out
InvokeHandler(r, out) ==
  /\ req[r].pc = "handling"
  /\ req' = [req EXCEPT ![r].pc = "returning",
                        ![r].calls = @ + 1,
                        ![r].data = IF out \in HandlerErrors
                                      THEN out
                                      ELSE HandlerResult(req[r].in)]
  /\ made' = IF made.on /\ out \notin HandlerErrors /\ HasPolicy(req[r].in)
               THEN [made EXCEPT !.by[KeyOf(req[r].in)] =
                                    @ \cup {HandlerResult(req[r].in)}]
               ELSE made
  /\ UNCHANGED <<link, isConnected, queue, cache, age, db, api, local, stats, tally, mcall, kb, former, lastEvent>>

\* mutant: a catchError in the pipe turns every handler error into a 500
Settle_wraps(rq) ==
  IF HasPolicy(rq.in) /\ rq.data \notin HandlerErrors
    THEN [cmds |-> TapCommands(rq, rq.data), out |-> TapEmits(rq, rq.data)]
    ELSE [cmds |-> <<>>,
          out |-> IF rq.data \in HandlerErrors THEN DbError ELSE rq.data]

\* the handler's observable settles: an error goes past tap untouched, a
\* value fires the populate and goes on; without policy nothing is piped
Settle(rq) ==
  IF HasPolicy(rq.in) /\ rq.data \notin HandlerErrors
    THEN [cmds |-> TapCommands(rq, rq.data), out |-> TapEmits(rq, rq.data)]
    ELSE [cmds |-> <<>>, out |-> rq.data]

HandlerReturn(r) ==
  /\ req[r].pc = "returning"
  /\ LET s == Settle(req[r]) IN
       /\ Len(queue) + Len(s.cmds) <= MaxQueue
       /\ queue' = queue \o s.cmds
       /\ req' = [req EXCEPT ![r].pc = "done",
                             ![r].sets = Len(s.cmds),
                             ![r].data = NoData,
                             ![r].resp = s.out]
  /\ UNCHANGED <<link, isConnected, cache, age, db, api, local, stats, tally, mcall, kb, former, lastEvent, made>>

(* --------------------------- the Redis server -------------------------- *)
ServerGet(k) == IF cache[k].present THEN Bulk(cache[k].val) ELSE Nil

Min(a, b) == IF a < b THEN a ELSE b

\* glob match of a pattern that ends in '*'
Matches(pat, k) ==
  LET n == Len(pat) - 1 IN Len(k) >= n /\ SubSeq(k, 1, n) = SubSeq(pat, 1, n)

\* sections of INFO
STATS == <<"s", "t", "a", "t", "s">>
MEMORY == <<"m", "e", "m", "o", "r", "y">>

\* the text of INFO stats and of INFO memory; labels and line ends are one
\* element each
InfoText(section) ==
  IF section = STATS
    THEN <<"# Stats", "\r\n", "keyspace_hits:">> \o NumStr(stats.hits)
           \o <<"\r\n", "keyspace_misses:">> \o NumStr(stats.misses)
           \o <<"\r\n">>
    ELSE <<"# Memory", "\r\n", "used_memory_human:", "1", "M", "\r\n">>

\* an answer of the server or of the client; err: error reply or rejection
Answer == [err |-> FALSE, reply |-> Nil, list |-> {}, text |-> <<>>, num |-> 0]
Rejected == [Answer EXCEPT !.err = TRUE]

\* the server's answer to command c: err = an error reply
ServerAnswer(c) ==
  CASE c.op = "GET" -> [Answer EXCEPT !.reply = ServerGet(c.key)]
    [] c.op = "KEYS" ->
         [Answer EXCEPT !.list = {k \in Keys : cache[k].present /\ Matches(c.key, k)}]
    [] c.op = "DEL" -> [Answer EXCEPT !.err = (c.keys = {})]
    [] c.op = "INFO" -> [Answer EXCEPT !.text = InfoText(c.key)]
    [] c.op = "DBSIZE" ->
         [Answer EXCEPT !.num = Cardinality({k \in Keys : cache[k].present})]
    [] OTHER -> Answer

\* the server's keyspace counters after command c
ServerStats(c) ==
  CASE c.op = "GET" /\ tally.on ->
         IF cache[c.key].present THEN [stats EXCEPT !.hits = @ + 1]
                                 ELSE [stats EXCEPT !.misses = @ + 1]
    [] c.op = "CONFIG" -> NoCounts
    [] OTHER -> stats

\* mutant: a set is applied only when the key is absent (first set wins)
ServerApply_nx(c) ==
  CASE c.op = "SETEX" ->
         IF cache[c.key].present THEN cache
         ELSE [cache EXCEPT ![c.key] = Entry(c.val, c.ttl)]
    [] c.op = "SET" ->
         IF cache[c.key].present THEN cache
         ELSE [cache EXCEPT ![c.key] = Entry(c.val, -1)]
    [] c.op = "DEL" -> [k \in Keys |-> IF k \in c.keys THEN NoEntry ELSE cache[k]]
    [] OTHER -> cache

\* the keyspace after command c
ServerApply(c) ==
  CASE c.op = "SETEX" -> [cache EXCEPT ![c.key] = Entry(c.val, c.ttl)]
    [] c.op = "SET" -> [cache EXCEPT ![c.key] = Entry(c.val, -1)]
    [] c.op = "DEL" -> [k \in Keys |-> IF k \in c.keys THEN NoEntry ELSE cache[k]]
    [] OTHER -> cache

AgeAfter(c) ==
  CASE c.op \in {"SETEX", "SET"} -> [age EXCEPT ![c.key] = 0]
    [] c.op = "DEL" -> [k \in Keys |-> IF k \in c.keys THEN -1 ELSE age[k]]
    [] OTHER -> age

\* the direct call returns: the method's catch has seen the settled command
ApiSettle(a, res, how) ==
  CASE a.op = "get" ->
         LET g == RedisGet(res) IN
           [a EXCEPT !.pc = "done", !.how = how, !.threw = g.threw,
                     !.nil = g.value.nil, !.val = g.value.val]
    [] a.op = "keys" ->
         LET g == RedisKeys(res) IN
           [a EXCEPT !.pc = "done", !.how = how, !.threw = g.threw,
                     !.list = g.list]
    [] a.op = "del" ->
         [a EXCEPT !.pc = "done", !.how = how,
                   !.threw = RedisDelSettled(res).threw]
    [] OTHER ->
         [a EXCEPT !.pc = "done", !.how = how,
                   !.threw = RedisSetSettled(res).threw]

(* ------------------------- CacheMetricsService ------------------------- *)
\* commands only the metrics service sends, through getClient()
MetricsOps == {"INFO", "DBSIZE", "CONFIG"}
RESETSTAT == <<"R", "E", "S", "E", "T", "S", "T", "A", "T">>

\* info.match(/<label>(\d+)/)?.[1] || '0'
InfoField(info, label) ==
  LET P == {i \in 1..Len(info) : info[i] = label /\ DigitRun(info, i + 1) /= <<>>}
  IN IF P = {}
       THEN <<"0">>
       ELSE DigitRun(info, (CHOOSE i \in P : \A j \in P : i <= j) + 1)

\* (num / den).toFixed(2), in hundredths: the nearest, the larger of two
ToFixed2(num, den) == (200 * num + den) \div (2 * den)

\* mutant: the ratio is not scaled to a percentage
HitRate_fraction(h, m) ==
  LET totalRequests == h + m IN
    IF totalRequests > 0 THEN ToFixed2(h, totalRequests) ELSE ToFixed2(0, 1)

\* hitRate = totalRequests > 0 ? (redisHits / totalRequests) * 100 : 0,
\* then parseFloat(hitRate.toFixed(2)); in hundredths of a percent
HitRate(h, m) ==
  LET totalRequests == h + m IN
    IF totalRequests > 0 THEN ToFixed2(h * 100, totalRequests) ELSE ToFixed2(0, 1)

\* mutant: getMetrics reports the service's own counters
MetricsSource_local(info) == [hits |-> local.hits, misses |-> local.misses]

\* redisHits and redisMisses of getMetrics
MetricsSource(info) ==
  [hits |-> ParseInt(InfoField(info, "keyspace_hits:")),
   misses |-> ParseInt(InfoField(info, "keyspace_misses:"))]

\* the rest of the line from position i on
RECURSIVE LineRest(_, _)
LineRest(text, i) ==
  IF i <= Len(text) /\ text[i] /= "\r\n"
    THEN <<text[i]>> \o LineRest(text, i + 1)
    ELSE <<>>

\* getMemoryUsage: info.match(/used_memory_human:(.+)/)?.[1]?.trim() || 'Unknown'
MemoryUsed(text) ==
  LET P == {i \in 1..Len(text) : text[i] = "used_memory_human:"
                                   /\ LineRest(text, i + 1) /= <<>>}
  IN IF P = {}
       THEN <<"U", "n", "k", "n", "o", "w", "n">>
       ELSE LineRest(text, (CHOOSE i \in P : \A j \in P : i <= j) + 1)

\* the call goes on when command c of it has settled with res; a rejection
\* of any of its commands is the rejection of the call
MetricsSettle(m, c, res) ==
  CASE m.pc = "wait_all" /\ c.op = "INFO" ->
         IF res.err
           THEN [m EXCEPT !.pc = "done", !.threw = TRUE]
           ELSE [m EXCEPT !.pc = "wait_size", !.info = res.text,
                          !.seen = [stats |-> stats, tally |-> tally]]
    [] m.pc = "wait_size" /\ c.op = "DBSIZE" ->
         IF res.err
           THEN [m EXCEPT !.pc = "done", !.threw = TRUE]
           ELSE LET src == MetricsSource(m.info) IN
                  [m EXCEPT !.pc = "wait_mem", !.size = res.num,
                            !.hits = src.hits, !.misses = src.misses,
                            !.rate = HitRate(src.hits, src.misses),
                            !.keys = res.num]
    [] m.pc = "wait_mem" /\ c.op = "INFO" ->
         IF res.err
           THEN [m EXCEPT !.pc = "done", !.threw = TRUE]
           ELSE [m EXCEPT !.pc = "done", !.mem = MemoryUsed(res.text)]
    [] m.pc = "wait_reset" /\ c.op = "CONFIG" ->
         IF res.err
           THEN [m EXCEPT !.pc = "done", !.threw = TRUE]
           ELSE [m EXCEPT !.pc = "done"]
    [] OTHER -> m

\* memoryUsed: await this.getMemoryUsage(), the command sent once
\* Promise.all has resolved
MetricsFollowUp(m, c, res) ==
  IF m.pc = "wait_size" /\ c.op = "DBSIZE" /\ ~res.err
    THEN <<Cmd("INFO", MEMORY)>>
    ELSE <<>>

\* mutant: resetMetrics forgets this.misses
ResetLocal_hitsonly(m, c, res) ==
  IF m.pc = "wait_reset" /\ c.op = "CONFIG" /\ ~res.err
    THEN [local EXCEPT !.hits = 0]
    ELSE local

\* resetMetrics after `await client.config('RESETSTAT')`:
\* this.hits = 0; this.misses = 0
ResetLocal(m, c, res) ==
  IF m.pc = "wait_reset" /\ c.op = "CONFIG" /\ ~res.err
    THEN NoCounts
    ELSE local

\* a caller (MetricsController) calls getMetrics or resetMetrics: the
\* commands go to the client as they are, whatever the flag says
MetricsCall(op, cmds) ==
  /\ link /= "none"
  /\ mcall.pc \in {"idle", "done"}
  /\ \A i \in 1..Len(queue) : queue[i].op \notin MetricsOps
  /\ Len(queue) + Len(cmds) <= MaxQueue
  /\ queue' = queue \o cmds
  /\ mcall' = [IdleM EXCEPT !.op = op,
                            !.pc = IF op = "getMetrics" THEN "wait_all"
                                                        ELSE "wait_reset"]
  /\ UNCHANGED <<link, isConnected, cache, age, db, req, api, local, stats, tally, kb, former, lastEvent, made>>

GetMetrics == MetricsCall("getMetrics", <<Cmd("INFO", STATS), Cmd("DBSIZE", NoKey)>>)
ResetMetrics == MetricsCall("resetMetrics", <<Cmd("CONFIG", RESETSTAT)>>)

\* recordHit, recordMiss
RecordHit ==
  /\ local.hits < MaxRecord
  /\ local' = [local EXCEPT !.hits = @ + 1]
  /\ UNCHANGED <<link, isConnected, queue, cache, age, db, req, api, stats, tally, mcall, kb, former, lastEvent, made>>

RecordMiss ==
  /\ local.misses < MaxRecord
  /\ local' = [local EXCEPT !.misses = @ + 1]
  /\ UNCHANGED <<link, isConnected, queue, cache, age, db, req, api, stats, tally, mcall, kb, former, lastEvent, made>>

\* the settled command goes back to whoever awaits it
Deliver(c, res, how) ==
  /\ mcall' = MetricsSettle(mcall, c, res)
  /\ local' = ResetLocal(mcall, c, res)
  /\ IF c.api
       THEN /\ api' = ApiSettle(api, res, how)
            /\ UNCHANGED req
       ELSE /\ UNCHANGED api
            /\ IF c.op = "GET"
                 THEN req' = [req EXCEPT ![c.req] = AfterLookup(@, RedisGet(res), how)]
                 ELSE UNCHANGED req

\* the server executes the oldest command in flight and answers it
ServerExec ==
  /\ link = "up"
  /\ queue /= <<>>
  /\ LET c == Head(queue)
         res == ServerAnswer(c)
     IN /\ queue' = Tail(queue) \o MetricsFollowUp(mcall, c, res)
        /\ cache' = ServerApply(c)
        /\ age' = AgeAfter(c)
        /\ stats' = ServerStats(c)
        /\ Deliver(c, res, IF res.err THEN "err" ELSE IF c.api THEN "ok" ELSE "nil")
        /\ tally' = IF c.op = "CONFIG" THEN [NoTally EXCEPT !.on = tally.on]
                                       ELSE Observe(req, req')
  /\ UNCHANGED <<link, isConnected, db, kb, former, lastEvent, made>>

\* maxRetriesPerRequest of the client
maxRetriesPerRequest == 3

\* the connection is down and one more attempt to reach the server fails:
\* a retry is used up for every command that waits
RetryFail ==
  /\ link \in {"broken", "closed"}
  /\ \E i \in 1..Len(queue) : queue[i].tries < maxRetriesPerRequest
  /\ queue' = [i \in 1..Len(queue) |->
                 [queue[i] EXCEPT !.tries = Min(@ + 1, maxRetriesPerRequest)]]
  /\ UNCHANGED <<link, isConnected, cache, age, db, req, api, local, stats, tally, mcall, kb, former, lastEvent, made>>

\* mutant: maxRetriesPerRequest: null, a command waits for the connection
\* however long
CmdFail_pending ==
  /\ FALSE
  /\ UNCHANGED vars

\* the connection is down: the oldest command is rejected after its retries
CmdFail ==
  /\ link \in {"broken", "closed"}
  /\ queue /= <<>>
  /\ Head(queue).tries >= maxRetriesPerRequest
  /\ LET c == Head(queue) IN
       /\ queue' = Tail(queue)
       /\ Deliver(c, Rejected, "fail")
  /\ tally' = Observe(req, req')
  /\ UNCHANGED <<link, isConnected, cache, age, db, stats, kb, former, lastEvent, made>>

\* an entry with an expiry loses TickStep seconds and goes when none is left
Expire(e) ==
  IF e.present /\ e.ttl > 0
    THEN IF e.ttl - TickStep <= 0 THEN NoEntry ELSE [e EXCEPT !.ttl = @ - TickStep]
    ELSE e

\* TickStep seconds pass
Tick ==
  /\ \E k \in Keys : (cache[k].present /\ cache[k].ttl > 0)
                       \/ (age[k] >= 0 /\ age[k] < USER)
  /\ cache' = [k \in Keys |-> Expire(cache[k])]
  /\ age' = [k \in Keys |-> IF age[k] >= 0 THEN Min(age[k] + TickStep, USER)
                                           ELSE age[k]]
  /\ req' = IF \E k \in Keys : cache'[k].present /= cache[k].present
              THEN Disturbed(req)
              ELSE req
  /\ UNCHANGED <<link, isConnected, queue, db, api, local, stats, tally, mcall, kb, former, lastEvent, made>>

\* another client of the shared backend leaves a payload under a key
ForeignWrite(k, p) ==
  /\ link /= "none"
  /\ cache[k] /= Entry(p, -1)
  /\ cache' = [cache EXCEPT ![k] = Entry(p, -1)]
  /\ age' = [age EXCEPT ![k] = -1]
  /\ req' = Disturbed(req)
  /\ UNCHANGED <<link, isConnected, queue, db, api, local, stats, tally, mcall, kb, former, lastEvent, made>>

(* --------------------------- backing store ----------------------------- *)
DbValues(in) == IF in = ReqUser THEN UserValues ELSE PageValues

\* what each page of the list can hold when the two are told apart
PageRows(in) == IF in = ReqList THEN {Page(0), Page(1)} ELSE {Page(2), EmptyList}

\* a write to the backing store (prisma.user.update and the like)
DbWrite(in, v) ==
  /\ db[in] /= v
  /\ db' = [db EXCEPT ![in] = v]
  /\ UNCHANGED <<link, isConnected, queue, cache, age, req, api, local, stats, tally, mcall, kb, former, lastEvent, made>>

(* ------------------- direct calls of RedisService ---------------------- *)
\* a caller (a test, operational tooling) calls one method and awaits it;
\* cmds are the commands the method sends, none when the flag is false
ApiCall(op, k, cmds) ==
  /\ api.pc \in {"idle", "done"}
  /\ LET a == [IdleApi EXCEPT !.op = op, !.key = k] IN
       IF cmds = <<>>
         THEN /\ api' = [a EXCEPT !.pc = "done", !.how = "skip",
                                  !.nil = (op = "get" /\ RedisGetSkipped.value.nil),
                                  !.list = IF op = "keys" THEN RedisKeysSkipped.list
                                                          ELSE {}]
              /\ UNCHANGED queue
         ELSE /\ Len(queue) + Len(cmds) <= MaxQueue
              /\ queue' = queue \o [i \in 1..Len(cmds) |-> [cmds[i] EXCEPT !.api = TRUE]]
              /\ api' = [a EXCEPT !.pc = "wait"]
  /\ UNCHANGED <<link, isConnected, cache, age, db, req, local, stats, tally, mcall, kb, former, lastEvent, made>>

ApiGet(k) == ApiCall("get", k, RedisGetCmds(k))
ApiSet(k, v, t) == ApiCall("set", k, RedisSet(k, v, t))
ApiDel(ks) == ApiCall("del", NoKey, RedisDelCmds(ks))
ApiKeys(pat) == ApiCall("keys", pat, RedisKeysCmds(pat))

\* values and ttls of the direct set calls; 0: ttlSeconds omitted
ApiTexts == {Stringify(User(1)).text}
ApiTtls == {0, USER_LIST}
ApiPatterns == {Pattern(<<"u", "s", "e", "r">>)}

(* ----------------------- connection lifecycle -------------------------- *)
\* onModuleInit: the client is created and starts connecting
ModuleInit ==
  /\ link = "none"
  /\ link' = "connecting"
  /\ UNCHANGED <<isConnected, queue, cache, age, db, req, api, local, stats, tally, mcall, kb, former, lastEvent, made>>

\* mutant: the connect listener only logs
ConnectListener_logs == isConnected

\* what each listener of onModuleInit writes to this.isConnected
ConnectListener == TRUE

\* mutant: the error listener only logs
ErrorListener_logs == isConnected

ErrorListener == FALSE
CloseListener == FALSE

\* client.on('connect')
OnConnect ==
  /\ link \in {"connecting", "closed"}
  /\ link' = "up"
  /\ isConnected' = ConnectListener
  /\ lastEvent' = "connect"
  /\ UNCHANGED <<queue, cache, age, db, req, api, local, stats, tally, mcall, kb, former, made>>

\* the socket dies; no event has been delivered yet
LinkBreak ==
  /\ link = "up"
  /\ link' = "broken"
  /\ req' = Disturbed(req)
  /\ UNCHANGED <<isConnected, queue, cache, age, db, api, local, stats, tally, mcall, kb, former, lastEvent, made>>

\* client.on('error')
OnError ==
  /\ link = "broken"
  /\ isConnected
  /\ isConnected' = ErrorListener
  /\ lastEvent' = "error"
  /\ UNCHANGED <<link, queue, cache, age, db, req, api, local, stats, tally, mcall, kb, former, made>>

\* client.on('close')
OnClose ==
  /\ link \in {"up", "broken"}
  /\ link' = "closed"
  /\ isConnected' = CloseListener
  /\ lastEvent' = "close"
  /\ req' = Disturbed(req)
  /\ UNCHANGED <<queue, cache, age, db, api, local, stats, tally, mcall, kb, former, made>>

Lifecycle == ModuleInit \/ OnConnect \/ LinkBreak \/ OnError \/ OnClose

\* onModuleInit called again: this.client is replaced by a new client that
\* starts connecting; the client created before is neither ended nor
\* stripped of its listeners, and this.isConnected is left as it is
ModuleReinit ==
  /\ link /= "none"
  /\ former = "none"
  /\ queue = <<>>
  /\ former' = link
  /\ link' = "connecting"
  /\ req' = Disturbed(req)
  /\ UNCHANGED <<isConnected, queue, cache, age, db, api, local, stats, tally, mcall, kb, lastEvent, made>>

\* the listeners of the client created before, still registered
FormerConnect ==
  /\ former \in {"connecting", "closed"}
  /\ former' = "up"
  /\ isConnected' = ConnectListener
  /\ lastEvent' = "connect"
  /\ UNCHANGED <<link, queue, cache, age, db, req, api, local, stats, tally, mcall, kb, made>>

FormerBreak ==
  /\ former = "up"
  /\ former' = "broken"
  /\ UNCHANGED <<link, isConnected, queue, cache, age, db, req, api, local, stats, tally, mcall, kb, lastEvent, made>>

FormerError ==
  /\ former = "broken"
  /\ isConnected
  /\ isConnected' = ErrorListener
  /\ lastEvent' = "error"
  /\ UNCHANGED <<link, queue, cache, age, db, req, api, local, stats, tally, mcall, kb, former, made>>

FormerClose ==
  /\ former \in {"up", "broken"}
  /\ former' = "closed"
  /\ isConnected' = CloseListener
  /\ lastEvent' = "close"
  /\ UNCHANGED <<link, queue, cache, age, db, req, api, local, stats, tally, mcall, kb, made>>

FormerClient == FormerConnect \/ FormerBreak \/ FormerError \/ FormerClose

Backend == ServerExec \/ RetryFail \/ CmdFail \/ Tick

\* what a handler run can come to: it loads a value, or it throws
Loaded == [kind |-> "loaded", val |-> 0]
HandlerOutcomes == {Loaded} \cup HandlerErrors

\* one request at a time on GET /users/1 and on a handler without policy
Next ==
  \/ \E in \in {ReqUser, ReqOther} : Begin(1, in)
  \/ \E out \in HandlerOutcomes : InvokeHandler(1, out)
  \/ HandlerReturn(1)
  \/ Backend
  \/ Lifecycle
  \/ \E p \in ForeignPayloads : ForeignWrite(KeyOf(ReqUser), p)
  \/ \E v \in UserValues : DbWrite(ReqUser, v)

Spec == Init /\ [][Next]_vars

TypeOK ==
  /\ link \in {"none", "connecting", "up", "broken", "closed"}
  /\ isConnected \in BOOLEAN
  /\ Len(queue) <= MaxQueue
  /\ \A f \in {"hits", "misses"} : local[f] \in 0..MaxRecord /\ stats[f] \in 0..MaxTraffic
  /\ tally.on \in BOOLEAN /\ tally.bypass <= tally.misses
  /\ mcall.pc \in {"idle", "wait_all", "wait_size", "wait_mem", "wait_reset", "done"}
  /\ kb.pc \in {"idle", "built"}
  /\ former \in {"none", "connecting", "up", "broken", "closed"}
  /\ lastEvent \in {"none", "connect", "error", "close"}
  /\ made.on \in BOOLEAN
  /\ \A i \in 1..Len(queue) : queue[i].tries \in 0..maxRetriesPerRequest
  /\ \A r \in Reqs : req[r].pc \in {"idle", "wait_get", "handling", "returning", "done"}

\* one request at a time on GET /users?page=1&limit=10
NextList ==
  \/ Begin(1, ReqList)
  \/ \E out \in HandlerOutcomes : InvokeHandler(1, out)
  \/ HandlerReturn(1)
  \/ Backend
  \/ Lifecycle
  \/ \E p \in ForeignPayloads : ForeignWrite(KeyOf(ReqList), p)
  \/ \E v \in PageValues : DbWrite(ReqList, v)

SpecList == Init /\ [][NextList]_vars

\* direct calls of the RedisService methods, one at a time
NextApi ==
  \/ \E k \in Keys : ApiGet(k)
  \/ \E k \in Keys, v \in ApiTexts, t \in ApiTtls : ApiSet(k, v, t)
  \/ \E ks \in SUBSET Keys : ApiDel(ks)
  \/ \E pat \in ApiPatterns : ApiKeys(pat)
  \/ Backend
  \/ Lifecycle

SpecApi == Init /\ [][NextApi]_vars

\* GET /users/1 one request at a time, and the metrics endpoints
NextMetrics ==
  \/ Begin(1, ReqUser)
  \/ \E out \in HandlerOutcomes : InvokeHandler(1, out)
  \/ HandlerReturn(1)
  \/ ServerExec
  \/ RetryFail
  \/ CmdFail
  \/ Lifecycle
  \/ GetMetrics
  \/ ResetMetrics

SpecMetrics == InitMetrics /\ [][NextMetrics]_vars

\* the same with callers of recordHit and recordMiss, the handler loading
\* every time and the connection lost at most once
NextCounters ==
  \/ Begin(1, ReqUser)
  \/ InvokeHandler(1, Loaded)
  \/ HandlerReturn(1)
  \/ ServerExec
  \/ RetryFail
  \/ CmdFail
  \/ ModuleInit
  \/ OnConnect
  \/ LinkBreak
  \/ GetMetrics
  \/ ResetMetrics
  \/ RecordHit
  \/ RecordMiss

SpecCounters == InitMetrics /\ [][NextCounters]_vars

\* two pages of the list, requested side by side on a healthy backend
NextPages ==
  \/ \E r \in Reqs, in \in {ReqList, ReqList2} : Begin(r, in)
  \/ \E r \in Reqs : InvokeHandler(r, Loaded)
  \/ \E r \in Reqs : HandlerReturn(r)
  \/ ServerExec
  \/ ModuleInit
  \/ OnConnect
  \/ \E in \in {ReqList, ReqList2} : \E v \in PageRows(in) : DbWrite(in, v)

SpecPages == Init /\ [][NextPages]_vars

\* the same two pages, with the results of the handler followed per key
SpecMade == InitMade /\ [][NextPages]_vars

\* a request and direct calls, on a connection that may stay down for good
NextHang ==
  \/ Begin(1, ReqUser)
  \/ InvokeHandler(1, Loaded)
  \/ HandlerReturn(1)
  \/ ApiGet(KeyOf(ReqUser))
  \/ ApiSet(KeyOf(ReqUser), Stringify(User(1)).text, USER)
  \/ ApiDel({KeyOf(ReqUser)})
  \/ \E pat \in ApiPatterns : ApiKeys(pat)
  \/ ServerExec
  \/ RetryFail
  \/ CmdFail
  \/ Lifecycle

\* a connected server answers; a reconnection attempt ends; a command out of
\* retries is rejected
SpecHang ==
  /\ Init /\ [][NextHang]_vars
  /\ SF_vars(ServerExec) /\ WF_vars(RetryFail) /\ WF_vars(CmdFail)

\* requests for GET /users/1 on a connection that is lost and comes back;
\* onModuleInit runs once
NextRecover ==
  \/ \E r \in Reqs : Begin(r, ReqUser)
  \/ \E r \in Reqs : InvokeHandler(r, Loaded)
  \/ \E r \in Reqs : HandlerReturn(r)
  \/ ServerExec
  \/ RetryFail
  \/ CmdFail
  \/ Lifecycle

\* the backend is reachable again after every loss: a dead socket is
\* closed, and retryStrategy returns a delay every time, so the client
\* connects again
SpecRecover ==
  /\ Init /\ [][NextRecover]_vars
  /\ WF_vars(OnClose) /\ WF_vars(OnConnect)
  /\ SF_vars(ServerExec) /\ WF_vars(RetryFail) /\ WF_vars(CmdFail)

\* requests on both cached routes while time passes; nothing but the
\* interceptor writes to the cache
NextExpiry ==
  \/ \E in \in {ReqUser, ReqList} : Begin(1, in)
  \/ \E out \in HandlerOutcomes : InvokeHandler(1, out)
  \/ HandlerReturn(1)
  \/ ServerExec
  \/ Tick
  \/ Lifecycle

SpecExpiry == Init /\ [][NextExpiry]_vars

\* requests for GET /users/1 on a service whose onModuleInit is called a
\* second time
NextReinit ==
  \/ Begin(1, ReqUser)
  \/ InvokeHandler(1, Loaded)
  \/ HandlerReturn(1)
  \/ ServerExec
  \/ Lifecycle
  \/ ModuleReinit
  \/ FormerClient

SpecReinit == Init /\ [][NextReinit]_vars

\* two requests for GET /users/1 side by side on a healthy backend, the
\* record changing in the store meanwhile
NextRace ==
  \/ \E r \in Reqs : Begin(r, ReqUser)
  \/ \E r \in Reqs : InvokeHandler(r, Loaded)
  \/ \E r \in Reqs : HandlerReturn(r)
  \/ ServerExec
  \/ ModuleInit
  \/ OnConnect
  \/ \E v \in {User(1), User(2)} : DbWrite(ReqUser, v)

SpecRace == Init /\ [][NextRace]_vars

\* the key builder applied to pairs of inputs
NextKeys == BuildKeys

SpecKeys == InitKeys /\ [][NextKeys]_vars

\* the keyBuilder and the handler of a route on the same request
SpecArgs == InitArgs /\ [][NextKeys]_vars

(* ------------------------------ properties ----------------------------- *)
Done(r) == req[r].pc = "done"
KeyR(r) == KeyOf(req[r].in)
Failed(d) == d.kind \in {"HttpException", "Error", "RedisError", "SyntaxError",
                         "TypeError", "none"}

\* the lookup of request r is answered by the server in this step
Answered(r) == req[r].pc = "wait_get" /\ req'[r].pc /= "wait_get" /\ link = "up"

\* a command in flight that writes key k
PendingSet(k) ==
  \E i \in 1..Len(queue) : queue[i].op \in {"SET", "SETEX"} /\ queue[i].key = k

\* C1: a request that follows, on a healthy and undisturbed backend, a request
\* for the same key that missed and whose handler returned a non-null
\* serializable value is a hit, returns that same value and does not invoke
\* the handler.
C1_RoundTrip ==
  \A r \in Reqs :
    (Done(r) /\ req[r].calm /\ ~Failed(req[r].prev) /\ req[r].prev /= Null
       /\ Stringify(req[r].prev).ok)
    => (req[r].look = "hit" /\ req[r].calls = 0 /\ req[r].resp = req[r].prev)

C1_Witness ==
  \E r \in Reqs :
    Done(r) /\ req[r].calm /\ req[r].prev = User(1) /\ req[r].look = "hit"
      /\ req[r].resp = User(1)

\* C2: when the server answers a lookup with a deserializable value, the
\* request ends at once with the deserialized value and without a handler
\* call; a write to the backing store leaves the cache and the commands in
\* flight as they are.
C2_HitBypass ==
  [][/\ \A r \in Reqs :
          (Answered(r) /\ cache[KeyR(r)].present /\ Parse(cache[KeyR(r)].val).ok)
          => (req'[r].pc = "done" /\ req'[r].look = "hit" /\ req'[r].calls = 0
                /\ req'[r].resp = Parse(cache[KeyR(r)].val).data)
     /\ (db' /= db => (cache' = cache /\ queue' = queue))]_vars

C2_Witness ==
  \E r \in Reqs :
    Done(r) /\ req[r].look = "hit" /\ req[r].calls = 0 /\ req[r].resp = User(1)
      /\ db[ReqUser] = User(2) /\ cache[KeyR(r)] = Entry(Stringify(User(1)).text, 100)

\* C3: a lookup answered once the policy TTL has passed since the last
\* populate of the key is a miss; the handler then runs once and the response
\* is what the backing store holds when it runs.
C3_Staleness ==
  [][\A r \in Reqs :
       /\ (Answered(r) /\ age[KeyR(r)] >= PolicyTtl(req[r].in))
            => (req'[r].pc = "handling" /\ req'[r].look = "nil")
       /\ (req[r].pc = "handling" /\ req[r].look = "nil" /\ req'[r].pc = "returning")
            => (req'[r].calls = 1
                  /\ req'[r].data \in {db[req[r].in]} \cup HandlerErrors)
       /\ (req[r].pc = "returning" /\ req[r].look = "nil" /\ req'[r].pc = "done")
            => req'[r].resp = req[r].data]_vars

C3_Witness ==
  \E r \in Reqs :
    Done(r) /\ req[r].look = "nil" /\ req[r].resp = User(2) /\ req[r].calls = 1
      /\ age[KeyR(r)] >= USER /\ ~cache[KeyR(r)].present

\* C4: a request to a policy-bound handler whose lookup was skipped (flag
\* false) or rejected (flag true, call failed) invokes the handler exactly
\* once and ends with what the handler produced from the backing store, never
\* with an error of the cache layer.
C4_Fallback ==
  [][\A r \in Reqs :
       /\ (req'[r].look \in {"skip", "fail"})
            => (HasPolicy(req'[r].in) /\ req'[r].pc \in {"handling", "returning", "done"}
                  /\ req'[r].resp.kind \notin {"RedisError", "SyntaxError", "TypeError"})
       /\ (req'[r].look \in {"skip", "fail"} /\ req'[r].pc = "done")
            => req'[r].calls = 1
       /\ (req[r].look \in {"skip", "fail"} /\ req[r].pc = "handling"
             /\ req'[r].pc = "returning")
            => (req'[r].calls = 1
                  /\ req'[r].data \in {db[req[r].in]} \cup HandlerErrors)
       /\ (req[r].look \in {"skip", "fail"} /\ req[r].pc = "returning"
             /\ req'[r].pc = "done")
            => req'[r].resp = req[r].data]_vars

C4_Witness ==
  \E r \in Reqs :
    Done(r) /\ req[r].look = "fail" /\ req[r].calls = 1 /\ req[r].resp = User(1)
      /\ isConnected /\ link = "broken"

\* C6: a payload under the derived key that cannot be deserialized is treated
\* as absent: the request invokes the handler and never ends with the parse
\* error.
C6_FailOpen ==
  [][\A r \in Reqs :
       (Answered(r) /\ cache[KeyR(r)].present /\ ~Parse(cache[KeyR(r)].val).ok)
       => (req'[r].pc = "handling" /\ req'[r].resp /= SyntaxError)]_vars

\* C7: on a miss the response is the value the handler emitted, whatever
\* becomes of the populate (result not serializable, flag false, set
\* rejected), and a finished response is not changed afterwards.
C7_PopulateKeepsResponse ==
  [][\A r \in Reqs :
       /\ (req[r].pc = "returning" /\ HasPolicy(req[r].in)
             /\ req[r].data \notin HandlerErrors /\ req'[r].pc = "done")
            => req'[r].resp = req[r].data
       /\ (req[r].pc = "done" /\ req'[r].pc = "done") => req'[r].resp = req[r].resp]_vars

C7_Witness ==
  \E r \in Reqs :
    Done(r) /\ req[r].look = "nil" /\ req[r].calm /\ req[r].resp = Circular
      /\ req[r].sets = 0

\* C8: a handler error leaves the interceptor as it was thrown, sends no
\* command and leaves the cache as it is; the request that follows on an
\* undisturbed backend misses and invokes the handler again.
C8_HandlerFailure ==
  [][\A r \in Reqs :
       /\ (req[r].pc = "returning" /\ req[r].data \in HandlerErrors
             /\ req'[r].pc = "done")
            => (req'[r].resp = req[r].data /\ req'[r].sets = 0
                  /\ queue' = queue /\ cache' = cache)
       /\ (req'[r].pc = "done" /\ req'[r].calm /\ req'[r].prev \in HandlerErrors)
            => (req'[r].look = "nil" /\ req'[r].calls = 1)]_vars

C8_Witness ==
  \E r \in Reqs :
    Done(r) /\ req[r].calm /\ req[r].prev = NotFound /\ req[r].look = "nil"
      /\ req[r].calls = 1 /\ req[r].resp = User(1)

\* C9: a request that missed on a healthy, undisturbed backend and whose
\* handler returned null sends no set and leaves no entry under its key; the
\* request that follows invokes the handler again.
C9_NonPoisoning ==
  \A r \in Reqs :
    /\ (Done(r) /\ req[r].look = "nil" /\ req[r].calm /\ req[r].resp = Null)
         => (req[r].sets = 0 /\ ~cache[KeyR(r)].present /\ ~PendingSet(KeyR(r)))
    /\ (Done(r) /\ req[r].calm /\ req[r].prev = Null)
         => (req[r].look = "nil" /\ req[r].calls = 1)

C9_Witness ==
  \E r \in Reqs :
    Done(r) /\ req[r].calm /\ req[r].prev = Null /\ req[r].calls = 1
      /\ req[r].resp = Null

\* C10: a request that missed on a healthy, undisturbed backend and whose
\* handler returned an empty collection (an empty array, or a page with no
\* items) sends one set-with-expiry of the serialized value under its key with
\* the policy TTL; the request that follows is a hit.
EmptyCollections == {EmptyList, Page(0)}

C10_EmptyCollectionCached ==
  \A r \in Reqs :
    /\ (Done(r) /\ req[r].look = "nil" /\ req[r].calm
          /\ req[r].resp \in EmptyCollections)
         => /\ req[r].sets = 1
            /\ LET k == KeyR(r)
                   text == Stringify(req[r].resp).text
               IN \/ \E i \in 1..Len(queue) :
                       queue[i] = SetexCmd(k, text, PolicyTtl(req[r].in))
                  \/ cache[k] = Entry(text, PolicyTtl(req[r].in))
    /\ (Done(r) /\ req[r].calm /\ req[r].prev \in EmptyCollections)
         => (req[r].look = "hit" /\ req[r].calls = 0 /\ req[r].resp = req[r].prev)

C10_Witness ==
  \E r \in Reqs :
    Done(r) /\ req[r].calm /\ req[r].prev = Page(0) /\ req[r].look = "hit"
      /\ req[r].resp = Page(0) /\ cache[KeyR(r)].ttl = USER_LIST

\* C5: no direct call of get, set, del or keys ends by throwing, in any
\* backend state; get returns absent when the flag is false, when the call is
\* rejected and when the key does not exist, and the value otherwise; keys
\* returns the empty list when the flag is false or the call is rejected.
C5_NeverThrows ==
  [][/\ api'.pc = "done" => ~api'.threw
     /\ (api'.pc = "done" /\ api'.op = "get" /\ api'.how \in {"skip", "fail"})
          => api'.nil
     /\ (api.pc = "wait" /\ api.op = "get" /\ api'.pc = "done" /\ link = "up")
          => (api'.nil = ~cache[api.key].present
                /\ (cache[api.key].present => api'.val = cache[api.key].val))
     /\ (api'.pc = "done" /\ api'.op = "keys" /\ api'.how \in {"skip", "fail"})
          => api'.list = {}]_vars

C5_Witness ==
  /\ api.pc = "done" /\ api.op = "del" /\ api.how = "err" /\ ~api.threw
  /\ link = "up" /\ isConnected

\* C11: a request to a handler that has no cache policy passes through: no
\* lookup and no populate is made, no command is sent, the handler runs
\* exactly once and its result (or its error) is the response; the cache and
\* the metrics counters are as they were.
C11_PassThrough ==
  [][\A r \in Reqs :
       (req'[r].pc /= req[r].pc /\ req'[r].in \notin BoundInputs)
         => /\ queue' = queue /\ cache' = cache
            /\ local' = local /\ stats' = stats
            /\ req'[r].pc \in {"handling", "returning", "done"}
            /\ req'[r].look = "none" /\ req'[r].sets = 0
            /\ req'[r].pc = "done"
                 => (req'[r].calls = 1 /\ req'[r].resp = req[r].data)]_vars

C11_Witness ==
  \E r \in Reqs :
    /\ Done(r) /\ req[r].in = ReqOther /\ req[r].resp = User(1)
    /\ req[r].calls = 1 /\ isConnected /\ link = "up"
    /\ cache[KeyOf(ReqUser)].present

\* C12: for every request to a handler with a cache policy the service's own
\* counters move by exactly one: hits when the lookup ends in a hit, misses
\* when the handler is invoked (fallback on an unhealthy backend included).
C12_Recording ==
  [][\A r \in Reqs :
       (LookupEnds(req[r], req'[r]) /\ req'[r].in \in BoundInputs)
         => IF req'[r].look = "hit"
              THEN local' = [local EXCEPT !.hits = @ + 1]
              ELSE local' = [local EXCEPT !.misses = @ + 1]]_vars

\* the (resource, identifier) or (resource, page, limit) a derivation stands for
Logical(x) ==
  IF x.fn = "buildList"
    THEN [x EXCEPT !.page = <<OrDefault(x.page, 1)>>,
                   !.limit = <<OrDefault(x.limit, 10)>>]
    ELSE x

\* C13: two distinct (resource, identifier) pairs, or two distinct
\* (resource, page, limit) tuples, never derive the same key, whatever the
\* strings (the separator included), and a key of build never equals a key
\* of buildList.
C13_CollisionFree ==
  (/\ kb.pc = "built"
   /\ kb.x.fn \in {"build", "buildList"} /\ kb.y.fn \in {"build", "buildList"}
   /\ Logical(kb.x) /= Logical(kb.y))
    => kb.kx /= kb.ky

\* C15: buildList with page and limit missing derives the key of page 1 and
\* limit 10, and with one of them missing the key of its default; a list
\* request without page and limit in the query derives the key of
\* page=1&limit=10.
C15_DefaultCollapse ==
  kb.pc = "built" =>
    /\ (/\ kb.x.fn = "buildList" /\ kb.y.fn = "buildList"
        /\ kb.x.resource = kb.y.resource
        /\ kb.x.page \in {<<>>, <<1>>} /\ kb.y.page \in {<<>>, <<1>>}
        /\ kb.x.limit \in {<<>>, <<10>>} /\ kb.y.limit \in {<<>>, <<10>>})
         => kb.kx = kb.ky
    /\ (/\ kb.x.fn = "buildList" /\ kb.y.fn = "buildList"
        /\ kb.x.resource = kb.y.resource
        /\ \/ kb.x.page = <<>> /\ kb.y.page = <<1>> /\ kb.x.limit = kb.y.limit
           \/ kb.x.limit = <<>> /\ kb.y.limit = <<10>> /\ kb.x.page = kb.y.page)
         => kb.kx = kb.ky
    /\ (/\ kb.x.fn = "findAll" /\ kb.y.fn = "findAll"
        /\ kb.x.qpage = <<>> /\ kb.x.qlimit = <<>>
        /\ kb.y.qpage = << <<"1">> >> /\ kb.y.qlimit = << <<"1", "0">> >>)
         => kb.kx = kb.ky

C15_Witness ==
  /\ kb.pc = "built"
  /\ kb.x = RouteIn(<<>>, <<>>)
  /\ kb.y = RouteIn(<< <<"1">> >>, << <<"1", "0">> >>)
  /\ kb.kx = KeyOf(ReqList) /\ kb.ky = kb.kx

\* getMetrics has returned its object
Reported == mcall.op = "getMetrics" /\ mcall.pc = "done" /\ ~mcall.threw

\* rate, in hundredths of a percent, is 100 * n / (n + m) to the nearest
\* hundredth, and 0 when n + m = 0
Near(rate, n, m) ==
  IF n + m = 0
    THEN rate = 0
    ELSE LET d == rate * (n + m) - 10000 * n IN
           2 * d <= n + m /\ 2 * (0 - d) <= n + m

\* C16: getMetrics returns the server's counters h and m as hits and misses
\* and 100 * h / (h + m) rounded to two decimals as the hit rate, 0 when
\* h + m = 0, whatever the service's own counters hold.
C16_BackendTotals ==
  Reported =>
    /\ mcall.hits = mcall.seen.stats.hits
    /\ mcall.misses = mcall.seen.stats.misses
    /\ Near(mcall.rate, mcall.seen.stats.hits, mcall.seen.stats.misses)

C16_Witness ==
  /\ Reported
  /\ mcall.hits = 2 /\ mcall.misses = 1 /\ mcall.rate = 6667
  /\ local = [hits |-> 1, misses |-> 0]

\* C17: starting from reset counters, after requests of which N ended in a
\* hit and M had the handler invoked, the hit rate getMetrics reports is
\* 100 * N / (N + M) within rounding, and 0 when N + M = 0.
C17_Consistency ==
  Reported => Near(mcall.rate, mcall.seen.tally.hits, mcall.seen.tally.misses)

\* C17, amended: the same, provided every one of those lookups was answered
\* by the server (none skipped on a false health flag, none rejected) and no
\* other client reads or writes the backend.
C17_ConsistencyAnswered ==
  (Reported /\ mcall.seen.tally.bypass = 0)
    => Near(mcall.rate, mcall.seen.tally.hits, mcall.seen.tally.misses)

C17_Witness ==
  /\ Reported
  /\ mcall.seen.tally = [on |-> TRUE, hits |-> 2, misses |-> 1, bypass |-> 0]
  /\ mcall.rate = 6667

C19_MetricsAbsorb == mcall.pc = "done" => ~mcall.threw

\* the payload text is what a handler of page in produced
PayloadOf(in, text) == Parse(text).ok /\ Parse(text).data \in PageRows(in)

\* C14: page 1 and page 2 of the list live under two different keys; a
\* populate applied for one leaves the entry of the other as it was, each
\* entry holds a payload produced for its own page, and a hit returns the
\* payload of its own page.
C14_KeyIndependence ==
  [][/\ KeyOf(ReqList) /= KeyOf(ReqList2)
     /\ \A k \in Keys :
          cache'[k] /= cache[k]
            => /\ queue /= <<>> /\ Head(queue).op = "SETEX" /\ Head(queue).key = k
               /\ \A k2 \in Keys \ {k} : cache'[k2] = cache[k2]
     /\ \A in \in {ReqList, ReqList2} :
          cache'[KeyOf(in)].present => PayloadOf(in, cache'[KeyOf(in)].val)
     /\ \A r \in Reqs :
          (req'[r].pc = "done" /\ req'[r].look = "hit")
            => req'[r].resp \in PageRows(req'[r].in)]_vars

C14_Witness ==
  /\ cache[KeyOf(ReqList)] = Entry(Stringify(Page(1)).text, USER_LIST)
  /\ cache[KeyOf(ReqList2)] = Entry(Stringify(Page(2)).text, USER_LIST)
  /\ \E r \in Reqs :
       Done(r) /\ req[r].in = ReqList2 /\ req[r].look = "hit"
         /\ req[r].resp = Page(2)

\* C20: a call of get, set, del or keys made while the health flag is false
\* returns at once with its fallback (absent, nothing done, empty list) and
\* puts no command on the connection.
C20_ShortCircuit ==
  [][(api.pc \in {"idle", "done"} /\ api' /= api /\ ~isConnected)
       => /\ queue' = queue /\ cache' = cache
          /\ api'.pc = "done" /\ api'.how = "skip" /\ ~api'.threw
          /\ api'.op = "get" => api'.nil
          /\ api'.op = "keys" => api'.list = {}]_vars

C20_Witness ==
  /\ api.pc = "done" /\ api.op = "set" /\ api.how = "skip"
  /\ ~isConnected /\ link = "closed" /\ queue = <<>>
  /\ \E k \in Keys : cache[k].present

\* C21: the health flag follows the lifecycle events alone: it is false
\* before any event, true when the event delivered last was connect, false
\* when it was error or close; no get, set, del, keys or interceptor step
\* changes it.
C21_FlagFollowsEvents == isConnected = (lastEvent = "connect")

C21_Witness ==
  /\ lastEvent = "connect" /\ isConnected
  /\ Done(1) /\ req[1].in = ReqUser /\ req[1].look = "fail"

\* C22: a call of get, set, del or keys that has sent its command returns,
\* and the lookup of a request ends, however long the backend stays out of
\* reach; no command is tried more than maxRetriesPerRequest times.
C22_NoHang ==
  /\ (api.pc = "wait") ~> (api.pc = "done")
  /\ (req[1].pc = "wait_get") ~> (req[1].pc /= "wait_get")
  /\ [](\A i \in 1..Len(queue) : queue[i].tries <= maxRetriesPerRequest)

C22_Witness ==
  /\ api.pc = "done" /\ api.op = "get" /\ api.how = "fail" /\ api.nil
  /\ ~api.threw /\ link = "closed"

\* C23: a lookup answered while the key is absent is a miss whatever another
\* request for the same key is doing, so two requests that look up a cold
\* key before either populate is applied both invoke the handler and both
\* send a set; each returns its own handler result; a set the server
\* applies replaces the entry as a whole with that set's value and ttl.
C23_NoSingleFlight ==
  [][/\ \A r \in Reqs :
          /\ (Answered(r) /\ ~cache[KeyR(r)].present)
               => (req'[r].pc = "handling" /\ req'[r].look = "nil")
          /\ (req[r].pc = "returning" /\ req'[r].pc = "done"
                /\ req[r].look = "nil")
               => /\ req'[r].resp = req[r].data /\ req'[r].calls = 1
                  /\ req'[r].sets = 1
                  /\ queue' = Append(queue,
                                     SetexCmd(KeyR(r), Stringify(req[r].data).text,
                                              USER))
     /\ (queue /= <<>> /\ Head(queue).op = "SETEX" /\ queue' = Tail(queue))
          => cache'[Head(queue).key] = Entry(Head(queue).val, Head(queue).ttl)]_vars

C23_Witness ==
  /\ Done(1) /\ Done(2) /\ queue = <<>>
  /\ req[1].look = "nil" /\ req[2].look = "nil"
  /\ req[1].calls = 1 /\ req[2].calls = 1
  /\ req[1].sets = 1 /\ req[2].sets = 1
  /\ req[1].resp = User(1) /\ req[2].resp = User(2)
  /\ db[ReqUser] = User(2)
  /\ cache[KeyOf(ReqUser)] = Entry(Stringify(User(1)).text, USER)

\* C27: with the cache written only by the interceptor, a response served
\* from the cache under key k is a result the handler returned earlier for a
\* request of key k, and so is every entry and every populate on the way
C27_Provenance ==
  /\ \A r \in Reqs :
       (Done(r) /\ req[r].look = "hit") => req[r].resp \in made.by[KeyR(r)]
  /\ \A k \in Keys :
       cache[k].present => \E v \in made.by[k] : cache[k].val = Stringify(v).text
  /\ \A i \in 1..Len(queue) :
       queue[i].op = "SETEX"
         => \E v \in made.by[queue[i].key] : queue[i].val = Stringify(v).text

\* page 1 is answered from the cache with the rows the handler returned
\* before the store changed, while page 2 holds its own rows
C27_Witness ==
  /\ Done(1) /\ req[1].in = ReqList /\ req[1].look = "hit"
  /\ req[1].resp \in made.by[KeyR(1)]
  /\ req[1].resp /= db[ReqList]
  /\ made.by[KeyOf(ReqList2)] /= {}
  /\ made.by[KeyOf(ReqList)] \cap made.by[KeyOf(ReqList2)] = {}
  /\ cache[KeyOf(ReqList2)].present

\* C24: after the connection is lost the same client connects again and the
\* health flag is true again, with no second onModuleInit; a request of a
\* bound handler that arrives while the flag is true sends its lookup, and
\* after a miss it sends its populate.
C24_Recovery ==
  /\ (link \in {"broken", "closed"}) ~> (link = "up" /\ isConnected)
  /\ [][/\ (link' = "connecting" /\ link /= "connecting") => link = "none"
        /\ \A r \in Reqs :
             /\ (isConnected /\ req[r].pc \in {"idle", "done"}
                   /\ req'[r].pc \notin {"idle", "done"})
                  => /\ req'[r].pc = "wait_get"
                     /\ queue' = Append(queue, GetCmd(r, KeyOf(ReqUser)))
             /\ (isConnected /\ req[r].pc = "returning" /\ req'[r].pc = "done"
                   /\ req[r].look = "nil" /\ Truthy(req[r].data))
                  => /\ req'[r].sets = 1
                     /\ Len(queue') = Len(queue) + 1
                     /\ queue'[Len(queue')].op = "SETEX"]_vars

\* the lookup of request 1 was rejected during an outage; request 2 arrived
\* after the client had connected again, missed and populated the key
C24_Witness ==
  /\ link = "up" /\ isConnected /\ lastEvent = "connect"
  /\ Done(1) /\ req[1].look = "fail"
  /\ Done(2) /\ req[2].look = "nil" /\ req[2].calm /\ req[2].sets = 1
  /\ cache[KeyOf(ReqUser)].present
  /\ queue = <<>>

\* C25: once onModuleInit has been called again, the health flag follows the
\* client created last: it is true while that client is connected and false
\* while that client is connecting or closed, whatever the client created
\* before does.
C25_CurrentClientOnly ==
  former /= "none"
    => /\ link = "up" => isConnected
       /\ isConnected => link \in {"up", "broken"}

\* the ttl of the policy whose keyBuilder derives key k
TtlOfKey(k) == PolicyTtl(CHOOSE in \in BoundInputs : KeyOf(in) = k)

\* C26: the interceptor sends nothing but lookups and sets with expiry, each
\* set with the ttl of the policy of its handler; so every entry has an
\* expiry, its age and its remaining time add up to that ttl, and it is gone
\* once the ttl has passed since the set that wrote it.
C26_ExpiryBound ==
  /\ \A i \in 1..Len(queue) :
       /\ queue[i].op \in {"GET", "SETEX"}
       /\ queue[i].op = "SETEX"
            => queue[i].ttl = TtlOfKey(queue[i].key) /\ queue[i].ttl > 0
  /\ \A k \in Keys :
       /\ cache[k].present
            => /\ cache[k].ttl > 0 /\ age[k] >= 0
               /\ age[k] + cache[k].ttl = TtlOfKey(k)
       /\ (age[k] >= 0 /\ age[k] >= TtlOfKey(k)) => ~cache[k].present

\* the page populated with USER_LIST seconds is gone after one step of time,
\* the user populated with USER seconds at the same moment is still there
C26_Witness ==
  /\ age[KeyOf(ReqList)] >= USER_LIST /\ ~cache[KeyOf(ReqList)].present
  /\ age[KeyOf(ReqList)] = age[KeyOf(ReqUser)]
  /\ cache[KeyOf(ReqUser)].present
  /\ cache[KeyOf(ReqUser)].ttl = USER - age[KeyOf(ReqUser)]
  /\ cache[KeyOf(ReqUser)].ttl < USER

\* C28: two requests on the cached routes that derive the same key are on
\* the same route and their handlers call the service with the same
\* arguments: the same id for findOne, the same parsed page and limit for
\* findAll, missing, empty, zero and non-numeric values included.
C28_KeyAgreesWithArgs ==
  (/\ kb.pc = "built"
   /\ kb.x.fn \in {"findOne", "findAll"} /\ kb.y.fn \in {"findOne", "findAll"}
   /\ kb.kx = kb.ky)
    => (kb.x.fn = kb.y.fn /\ kb.ax = kb.ay)

\* ?page= and ?page=1a&limit=10 share the key of page 1, limit 10, and both
\* handlers ask the service for page 1, limit 10
C28_Witness ==
  /\ kb.pc = "built"
  /\ kb.x = RouteIn(<< <<>> >>, <<>>)
  /\ kb.y = RouteIn(<< <<"1", "a">> >>, << <<"1", "0">> >>)
  /\ kb.kx = kb.ky /\ kb.kx = KeyOf(ReqList)
  /\ kb.ax = <<1, 10>> /\ kb.ay = kb.ax
====
